---- MODULE Spec2Model ----
(***************************************************************************)
(* Gemini AI Text Toolkit: the chat flow (components/ChatBot.tsx), the     *)
(* text-processor flow (components/TextProcessor.tsx), the view switch of  *)
(* App.tsx and the Gemini service wrapper (services/geminiService.ts).     *)
(*                                                                         *)
(* A text is a sequence of one-character strings.  A localized string      *)
(* t(key), whose table is not part of the sources, is the one-symbol text  *)
(* <<key>>.  One step of the model is one browser task: a user event with  *)
(* the React render that follows it, a timer callback, or the settling of  *)
(* a remote call together with the promise continuations it runs.          *)
(***************************************************************************)
EXTENDS Naturals, Sequences, FiniteSets

VARIABLES
    view,         \* App: activeView
    messages,     \* ChatBot: messages of the mounted ChatBot
    input,        \* ChatBot: input
    isLoading,    \* ChatBot: isLoading
    timers,       \* pending setTimeout callbacks of handleRegenerate
    chat,         \* geminiService: the module variable chat
    created,      \* number of ai.chats.create calls so far; a handle is named by it
    discarded,    \* value of created at the last confirmed clear (history)
    chatCalls,    \* unresolved chatInstance.sendMessage calls
    inputText,    \* TextProcessor: inputText
    output,       \* TextProcessor: output
    procLoading,  \* TextProcessor: isLoading
    procCalls,    \* unresolved ai.models.generateContent calls
    openMenu,     \* TextProcessor: openMenu
    last,         \* the operation the last step ran and what it did (history)
    isRecording,  \* ChatBot / TextProcessor: isRecording of the mounted component
    isRecognitionReady, \* isRecognitionReady, as the mount effect sets it
    isPasteReady, \* TextProcessor: isPasteReady, as the mount effect sets it
    frames,       \* pending requestAnimationFrame callbacks of recognition.onresult
    pasteCalls,   \* unresolved navigator.clipboard.readText calls
    worker,       \* service worker: installing or activated
    cache,        \* service worker: the cache CACHE_NAME, response by URL
    fetchEvents,  \* service worker: fetch events not yet through
    API_KEY,      \* geminiService: process.env.API_KEY as the build defined it
    service       \* geminiService: how far the evaluation of the module has come

chatVars == <<messages, input, isLoading>>
gatewayVars == <<chat, created, discarded, chatCalls>>
procVars == <<inputText, output, procLoading, procCalls, openMenu>>
envVars == <<API_KEY, service>>
deviceVars == <<isRecording, isRecognitionReady, isPasteReady, frames,
                pasteCalls>>
workerVars == <<worker, cache, fetchEvents>>
pageVars == <<view, chatVars, timers, gatewayVars, procVars, envVars,
              deviceVars>>
vars == <<view, messages, input, isLoading, timers, chat, created, discarded,
          chatCalls, inputText, output, procLoading, procCalls, openMenu, last,
          API_KEY, service, isRecording, isRecognitionReady, isPasteReady,
          frames, pasteCalls, worker, cache, fetchEvents>>

(* ------------------------------ bounds -------------------------------- *)

MaxMsgs == 3
MaxPending == 2
MaxChats == 2

\* timers and remote calls outstanding; MaxPending caps them
Outstanding ==
    Len(timers) + Len(chatCalls) + Len(procCalls) + Len(frames) + Len(pasteCalls)

(* ------------------------------- texts -------------------------------- *)

\* what the user types into the chat's textarea: nothing, white space
\* alone, a word
Texts == {<<>>, <<" ">>, <<"a">>}

\* what the user types into the text processor's textarea: nothing, white
\* space alone, a word with white space around it
InputTexts == {<<>>, <<" ">>, <<" ", "a", "\n">>}

IsWhite(c) == c \in {" ", "\t", "\n"}

RECURSIVE TrimStart(_)
TrimStart(s) ==
    IF s = <<>> THEN s
    ELSE IF IsWhite(Head(s)) THEN TrimStart(Tail(s)) ELSE s

RECURSIVE TrimEnd(_)
TrimEnd(s) ==
    IF s = <<>> THEN s
    ELSE IF IsWhite(s[Len(s)]) THEN TrimEnd(SubSeq(s, 1, Len(s) - 1)) ELSE s

\* String.prototype.trim
Trim(s) == TrimEnd(TrimStart(s))

\* t(key) of useTranslation
T(key) == <<key>>

Remove(s, i) == SubSeq(s, 1, i - 1) \o SubSeq(s, i + 1, Len(s))

(* ------------------------- the remote service ------------------------- *)

NoChat == 0

Replies == {<<"r">>}

Errors == {"network", "quota"}

\* the text property of a response that holds no text: undefined (written
\* as a one-symbol text, which no text the service or the user writes equals)
UndefinedText == <<"undefined">>

\* how a remote call ends: a reply text, a response without text, or an error
RemoteOutcomes ==
    [ok : {TRUE}, text : Replies \cup {UndefinedText}, error : {"none"}]
        \cup [ok : {FALSE}, text : {<<>>}, error : Errors]

(* ----------------------- services/geminiService.ts -------------------- *)

\* process.env.API_KEY when the build defines none
Undefined == "undefined"

\* the values process.env.API_KEY can have: none, the empty string, a key
ApiKeys == {Undefined, "", "k"}

\* !API_KEY
Falsy(key) == key \in {Undefined, ""}

\* a module body without the check of API_KEY
ServiceAfterImportNoCheck(key) == "ready"

\* the evaluation of the module: it throws when API_KEY is not set, and
\* otherwise creates the client ai and exports its functions
ServiceAfterImport(key) == IF Falsy(key) THEN "threw" ELSE "ready"

\* the import of the module by ChatBot.tsx and TextProcessor.tsx, which
\* App.tsx imports in turn: it precedes the first render
ImportService ==
    /\ service = "importing"
    /\ service' = ServiceAfterImport(API_KEY)
    /\ last' = [op |-> "import"]
    /\ UNCHANGED <<API_KEY, workerVars, deviceVars,
                   view, chatVars, timers, gatewayVars,
                   procVars>>

\* the components are rendered, and their handlers can be called, once the
\* modules they import have been evaluated without an error
Rendered == service = "ready"

\* a getChatInstance that creates a chat on every call
GetChatInstanceCreates == created + 1

\* getChatInstance: the handle the turn is sent on
GetChatInstance == IF chat = NoChat THEN created + 1 ELSE chat

\* a reset that leaves the handle in place
ResetChatKeepsHandle == chat

\* resetChat
ResetChat == NoChat

\* a catch clause that returns '' instead of throwing the error again
GetChatResponseSwallows(outcome) ==
    IF outcome.ok
    THEN [status |-> "fulfilled", value |-> outcome.text, reason |-> "none",
          logged |-> <<>>]
    ELSE [status |-> "fulfilled", value |-> <<>>, reason |-> "none",
          logged |-> <<"Error in getChatResponse:", outcome.error>>]

\* getChatResponse after its await: what the caller's promise settles to,
\* and what console.error printed
GetChatResponseSettle(outcome) ==
    IF outcome.ok
    THEN [status |-> "fulfilled", value |-> outcome.text, reason |-> "none",
          logged |-> <<>>]
    ELSE [status |-> "rejected", value |-> <<>>, reason |-> outcome.error,
          logged |-> <<"Error in getChatResponse:", outcome.error>>]

Separator == <<"\n", "\n", "-", "-", "-", "\n", "\n">>

\* a request body built from the trimmed text
FullPromptTrimmed(prompt, textToProcess) ==
    prompt \o Separator \o TrimEnd(TrimStart(textToProcess))

\* a request body that tells whether a chat context exists
FullPromptWithChat(prompt, textToProcess) ==
    prompt \o Separator
        \o (IF chat = NoChat THEN <<>> ELSE <<"c">>) \o textToProcess

\* processText: fullPrompt
FullPrompt(prompt, textToProcess) == prompt \o Separator \o textToProcess

\* processText after its await
ProcessTextSettle(outcome) ==
    IF outcome.ok
    THEN [status |-> "fulfilled", value |-> outcome.text, reason |-> "none",
          logged |-> <<>>]
    ELSE [status |-> "rejected", value |-> <<>>, reason |-> outcome.error,
          logged |-> <<"Error in processText:", outcome.error>>]

\* the unresolved calls a settled call leaves behind: the call is not issued again
ChatCallsAfterSettle(i, outcome) == Remove(chatCalls, i)

ProcCallsAfterSettle(i, outcome) == Remove(procCalls, i)

(* ------------------------ components/ChatBot.tsx ---------------------- *)

UserMessage(content) == [role |-> "user", content |-> content]

ModelMessage(content) == [role |-> "model", content |-> content]

\* a guard that compares the text itself with '' (no trim)
SendRejectedNoTrim(messageToSend, isLoadingSeen) ==
    messageToSend = <<>> \/ isLoadingSeen

\* the guard of handleSend; isLoadingSeen is the isLoading of the render
\* whose handleSend is running
SendRejected(messageToSend, isLoadingSeen) ==
    Trim(messageToSend) = <<>> \/ isLoadingSeen

\* the Message an accepted handleSend appends
SentMessage(messageToSend) == UserMessage(messageToSend)

\* a catch clause that shows the error it caught
ReplyMessageShowsError(settled) ==
    IF settled.status = "fulfilled"
    THEN [role |-> "model", content |-> settled.value]
    ELSE [role |-> "model", content |-> <<settled.reason>>]

\* the Message handleSend appends when getChatResponse has settled
ReplyMessage(settled) ==
    IF settled.status = "fulfilled"
    THEN ModelMessage(settled.value)
    ELSE ModelMessage(T("chat.errorMessage"))

\* setIsLoading(false) at the end of the try block instead of in finally
LoadingAfterSendNoFinally(settled) == settled.status = "rejected"

\* the finally block of handleSend: setIsLoading(false)
LoadingAfterSend(settled) == FALSE

\* handleSend up to its await.  mounted: the ChatBot whose handleSend this
\* is is still mounted (a state update of an unmounted component is dropped)
HandleSend(messageToSend, isLoadingSeen, mounted, via) ==
    IF SendRejected(messageToSend, isLoadingSeen)
    THEN /\ UNCHANGED <<messages, input, isLoading, chat, created, chatCalls>>
         /\ last' = [op |-> "handleSend", via |-> via, text |-> messageToSend,
                     accepted |-> FALSE]
    ELSE /\ via = "user" => Outstanding < MaxPending
         /\ mounted => Len(messages) < MaxMsgs
         /\ chat = NoChat => created < MaxChats
         /\ IF mounted
            THEN /\ messages' = Append(messages, SentMessage(messageToSend))
                 /\ input' = <<>>
                 /\ isLoading' = TRUE
            ELSE UNCHANGED <<messages, input, isLoading>>
         /\ chat' = GetChatInstance
         /\ created' = IF chat = NoChat THEN created + 1 ELSE created
         /\ chatCalls' = Append(chatCalls,
                [message |-> messageToSend, handle |-> GetChatInstance,
                 mounted |-> mounted])
         /\ last' = [op |-> "handleSend", via |-> via, text |-> messageToSend,
                     accepted |-> TRUE]

\* the textarea's onChange (the textarea is disabled while isLoading)
SetInput(text) ==
    /\ Rendered
    /\ view = "chat"
    /\ ~isLoading
    /\ input' = text
    /\ last' = [op |-> "setInput"]
    /\ UNCHANGED <<envVars, workerVars, deviceVars,
                   view, messages, isLoading, timers, gatewayVars,
                   procVars>>

\* Enter in the textarea, or the send button: handleSend(input)
SendInput ==
    /\ Rendered
    /\ view = "chat"
    /\ HandleSend(input, isLoading, TRUE, "user")
    /\ UNCHANGED <<envVars, workerVars, deviceVars,
                   view, timers, discarded, procVars>>

\* an updater that drops the first entry when the last one is a model reply
DropFirstMessage(prev) ==
    IF prev # <<>> /\ prev[Len(prev)].role = "model"
    THEN SubSeq(prev, 2, Len(prev))
    ELSE prev

\* an updater that drops the last entry whatever its role
DropLastMessage(prev) ==
    IF prev # <<>> THEN SubSeq(prev, 1, Len(prev) - 1) ELSE prev

\* messages without a trailing model reply (the updater of handleRegenerate)
DropTrailingReply(prev) ==
    IF prev # <<>> /\ prev[Len(prev)].role = "model"
    THEN SubSeq(prev, 1, Len(prev) - 1)
    ELSE prev

UserIndexes(msgs) == {i \in 1..Len(msgs) : msgs[i].role = "user"}

\* [...messages].reverse().find(m => m.role === 'user')
LastUserMessage(msgs) ==
    msgs[CHOOSE i \in UserIndexes(msgs) : \A j \in UserIndexes(msgs) : j <= i]

\* the isLoading that the handleSend captured by handleRegenerate closes over
CapturedIsLoading == isLoading

\* a guard that does not look at isLoading
RegenerateRejectedWhenNoUser(msgs, isLoadingSeen) == UserIndexes(msgs) = {}

\* the two early returns of handleRegenerate: isLoading, and no user message
RegenerateRejected(msgs, isLoadingSeen) ==
    isLoadingSeen \/ UserIndexes(msgs) = {}

HandleRegenerate ==
    /\ Rendered
    /\ view = "chat"
    /\ IF RegenerateRejected(messages, isLoading)
       THEN /\ UNCHANGED <<messages, timers>>
            /\ last' = [op |-> "handleRegenerate", accepted |-> FALSE]
       ELSE /\ Outstanding < MaxPending
            /\ messages' = DropTrailingReply(messages)
            /\ timers' = Append(timers,
                   [content |-> LastUserMessage(messages).content,
                    isLoading |-> CapturedIsLoading, mounted |-> TRUE])
            /\ last' = [op |-> "handleRegenerate", accepted |-> TRUE]
    /\ UNCHANGED <<envVars, workerVars, deviceVars,
                   view, input, isLoading, gatewayVars, procVars>>

\* the callback of setTimeout(() => handleSend(lastUserMessage.content), 0)
TimerFires(i) ==
    /\ i \in 1..Len(timers)
    /\ HandleSend(timers[i].content, timers[i].isLoading, timers[i].mounted,
                  "timer")
    /\ timers' = Remove(timers, i)
    /\ UNCHANGED <<envVars, workerVars, deviceVars, view, discarded, procVars>>

\* a clear that leaves the messages in place
ClearedMessagesKeeps(prev) == prev

\* handleClearChat: setMessages([])
ClearedMessages(prev) == <<>>

\* what resetChat can reach: the state of the mounted ChatBot and the module
\* variable chat
ChatState ==
    [messages |-> messages, input |-> input, isLoading |-> isLoading,
     chat |-> chat]

\* a reset that empties the message sequence and the input as well
ResetChatClearsChat(s) ==
    [s EXCEPT !.chat = ResetChat, !.messages = <<>>, !.input = <<>>]

\* resetChat run in state s: chat = null
ResetChatIn(s) == [s EXCEPT !.chat = ResetChat]

\* handleClearChat; confirmed is what window.confirm returns, and without
\* the confirmation the handler does nothing at all
HandleClearChat(confirmed) ==
    /\ Rendered
    /\ view = "chat"
    /\ IF confirmed
       THEN LET cleared == [ChatState EXCEPT
                               !.messages = ClearedMessages(messages)]
                after == ResetChatIn(cleared)
            IN  /\ messages' = after.messages
                /\ input' = after.input
                /\ isLoading' = after.isLoading
                /\ chat' = after.chat
                /\ discarded' = created
                /\ last' = [op |-> "handleClearChat", confirmed |-> TRUE,
                            hadMessages |-> messages # <<>>,
                            hadHandle |-> chat # NoChat]
       ELSE UNCHANGED <<messages, input, isLoading, chat, discarded, last>>
    /\ UNCHANGED <<envVars, workerVars, deviceVars,
                   view, timers, created, chatCalls, procVars>>

\* a catch clause that discards the handle of a failed turn
ChatAfterSettleResets(handle, outcome) ==
    IF outcome.ok THEN handle ELSE ResetChat

\* the module variable chat when getChatResponse resumes: neither branch
\* assigns it
ChatAfterSettle(handle, outcome) == handle

\* a sendMessage call settles; getChatResponse and then handleSend resume
ChatSettle(i, outcome) ==
    /\ i \in 1..Len(chatCalls)
    /\ LET settled == GetChatResponseSettle(outcome)
       IN  /\ IF chatCalls[i].mounted
              THEN /\ messages' = Append(messages, ReplyMessage(settled))
                   /\ isLoading' = LoadingAfterSend(settled)
              ELSE UNCHANGED <<messages, isLoading>>
           /\ last' = [op |-> "chatSettle", mounted |-> chatCalls[i].mounted,
                       outcome |-> outcome, settled |-> settled]
    /\ chatCalls' = ChatCallsAfterSettle(i, outcome)
    /\ chat' = ChatAfterSettle(chat, outcome)
    /\ UNCHANGED <<envVars, workerVars, deviceVars,
                   view, input, timers, created, discarded,
                   procVars>>

(* --------------------- components/TextProcessor.tsx ------------------- *)

\* constants.ts: the instruction of the menu child translate-fr
TranslateFrPrompt ==
    <<"T", "r", "a", "n", "s", "l", "a", "t", "e", " ", "t", "h", "e", " ",
      "f", "o", "l", "l", "o", "w", "i", "n", "g", " ", "t", "e", "x", "t",
      " ", "i", "n", "t", "o", " ", "F", "r", "e", "n", "c", "h", ":">>

\* constants.ts: the instruction of the leaf template summarize
SummarizePrompt == T("processor.prompts.summarizePrompt")

\* the languages of useTranslation
Languages == {"en", "vi"}

\* t(key) in a language: a localized string, which is never empty
TIn(language, key) == IF language = "en" THEN T(key) ELSE <<key, language>>

\* 'Translate the following text into ' + the name of a language + ':'
TranslateInto(name) ==
    <<"T", "r", "a", "n", "s", "l", "a", "t", "e", " ", "t", "h", "e", " ",
      "f", "o", "l", "l", "o", "w", "i", "n", "g", " ", "t", "e", "x", "t",
      " ", "i", "n", "t", "o", " ">> \o name \o <<":">>

\* a catalog entry without a prompt property
LeafWithoutPrompt(id, prompt) ==
    [id |-> id, isMenu |-> FALSE, prompt |-> UndefinedText,
     subActions |-> <<>>]

\* a template with an instruction of its own
Leaf(id, prompt) ==
    [id |-> id, isMenu |-> FALSE, prompt |-> prompt, subActions |-> <<>>]

\* a template with isMenu and subActions; it has no prompt property
Menu(id, subActions) ==
    [id |-> id, isMenu |-> TRUE, prompt |-> UndefinedText,
     subActions |-> subActions]

\* getReplyStyles(t)
GetReplyStyles(language) ==
    <<[id |-> "reply-neutral",
       prompt |-> TIn(language, "processor.replyStyles.neutralPrompt")],
      [id |-> "reply-friendly",
       prompt |-> TIn(language, "processor.replyStyles.friendlyPrompt")],
      [id |-> "reply-sarcastic",
       prompt |-> TIn(language, "processor.replyStyles.sarcasticPrompt")]>>

\* the subActions of the template translate
TranslateSubActions ==
    <<
      [id |-> "translate-vi",
       prompt |-> TranslateInto(<<"V", "i", "e", "t", "n", "a", "m", "e", "s", "e">>)],
      [id |-> "translate-en",
       prompt |-> TranslateInto(<<"E", "n", "g", "l", "i", "s", "h">>)],
      [id |-> "translate-es",
       prompt |-> TranslateInto(<<"S", "p", "a", "n", "i", "s", "h">>)],
      [id |-> "translate-fr",
       prompt |-> TranslateInto(<<"F", "r", "e", "n", "c", "h">>)],
      [id |-> "translate-de",
       prompt |-> TranslateInto(<<"G", "e", "r", "m", "a", "n">>)],
      [id |-> "translate-ja",
       prompt |-> TranslateInto(<<"J", "a", "p", "a", "n", "e", "s", "e">>)],
      [id |-> "translate-ko",
       prompt |-> TranslateInto(<<"K", "o", "r", "e", "a", "n">>)],
      [id |-> "translate-zh",
       prompt |-> TranslateInto(<<"C", "h", "i", "n", "e", "s", "e", " ", "(", "S", "i", "m", "p", "l", "i", "f", "i", "e", "d", ")">>)],
      [id |-> "translate-ru",
       prompt |-> TranslateInto(<<"R", "u", "s", "s", "i", "a", "n">>)],
      [id |-> "translate-pt",
       prompt |-> TranslateInto(<<"P", "o", "r", "t", "u", "g", "u", "e", "s", "e">>)],
      [id |-> "translate-it",
       prompt |-> TranslateInto(<<"I", "t", "a", "l", "i", "a", "n">>)],
      [id |-> "translate-hi",
       prompt |-> TranslateInto(<<"H", "i", "n", "d", "i">>)],
      [id |-> "translate-ar",
       prompt |-> TranslateInto(<<"A", "r", "a", "b", "i", "c">>)],
      [id |-> "translate-nl",
       prompt |-> TranslateInto(<<"D", "u", "t", "c", "h">>)],
      [id |-> "translate-tr",
       prompt |-> TranslateInto(<<"T", "u", "r", "k", "i", "s", "h">>)]>>

\* getPredefinedPrompts(t)
GetPredefinedPrompts(language) ==
    <<Leaf("summarize", TIn(language, "processor.prompts.summarizePrompt")),
      Leaf("expand-text", TIn(language, "processor.prompts.expandTextPrompt")),
      Leaf("reply-ai", TIn(language, "processor.prompts.replyAIPrompt")),
      Menu("quick-reply", GetReplyStyles(language)),
      Menu("translate", TranslateSubActions),
      Leaf("fix-grammar", TIn(language, "processor.prompts.fixGrammarPrompt")),
      Leaf("explain-like-im-5",
           TIn(language, "processor.prompts.explainLikeIm5Prompt")),
      Leaf("json-converter",
           TIn(language, "processor.prompts.jsonConverterPrompt"))>>

\* the part of getPredefinedPrompts("en") that the buttons followed here
\* stand for: the first of the leaf templates, and the menu template
\* translate with the child translate-fr
PROMPTS ==
    <<Leaf("summarize", SummarizePrompt),
      Menu("translate",
           <<[id |-> "translate-fr", prompt |-> TranslateFrPrompt]>>)>>

\* the instructions the buttons of the text processor pass to handleActionClick
Instructions ==
    {PROMPTS[k].prompt : k \in {k \in 1..Len(PROMPTS) : ~PROMPTS[k].isMenu}}
        \cup UNION {{PROMPTS[k].subActions[c].prompt :
                        c \in 1..Len(PROMPTS[k].subActions)} :
                     k \in 1..Len(PROMPTS)}

\* useState<string | null>(null) of openMenu
NoMenu == "null"

\* a guard that does not look at isLoading
ActionRejectedWhenBlank(text, isLoadingSeen) == Trim(text) = <<>>

\* the guard of handleAction
ActionRejected(text, isLoadingSeen) == Trim(text) = <<>> \/ isLoadingSeen

\* a catch clause that sets no output
OutputAfterNoCatch(settled) == settled.value

\* the output handleAction sets when processText has settled
OutputAfter(settled) ==
    IF settled.status = "fulfilled"
    THEN settled.value
    ELSE T("processor.errorMessage")

\* the finally block of handleAction: setIsLoading(false)
LoadingAfterAction(settled) == FALSE

\* whether the error of a rejected processText leaves handleAction uncaught:
\* the await is inside try, and the catch clause takes every error
EscapesHandleAction(settled) == FALSE

\* handleAction up to its await
HandleAction(prompt, text) ==
    IF ActionRejected(text, procLoading)
    THEN /\ UNCHANGED <<output, procLoading, procCalls>>
         /\ last' = [op |-> "handleAction", prompt |-> prompt, text |-> text,
                     accepted |-> FALSE]
    ELSE /\ Outstanding < MaxPending
         /\ procLoading' = TRUE
         /\ output' = <<>>
         /\ procCalls' = Append(procCalls,
                [prompt |-> prompt, text |-> text,
                 contents |-> FullPrompt(prompt, text), mounted |-> TRUE])
         /\ last' = [op |-> "handleAction", prompt |-> prompt, text |-> text,
                     accepted |-> TRUE]

\* a leaf button or a menu child: handleActionClick(promptToUse)
HandleActionClick(promptToUse) ==
    /\ Rendered
    /\ view = "processor"
    /\ HandleAction(promptToUse, inputText)
    /\ UNCHANGED <<envVars, workerVars, deviceVars,
                   view, chatVars, timers, gatewayVars, inputText>>

\* whether the buttons of the templates are disabled
ButtonsDisabled == procLoading \/ Trim(inputText) = <<>>

\* toggleMenu, which has no guard of its own, called by the click on a menu
\* button that is not disabled (the search box of the translate menu, which
\* toggleMenu empties, only hides children and is left out)
ToggleMenu(id) ==
    /\ Rendered
    /\ view = "processor"
    /\ ~ButtonsDisabled
    /\ openMenu' = IF openMenu = id THEN NoMenu ELSE id
    /\ last' = [op |-> "toggleMenu", id |-> id]
    /\ UNCHANGED <<envVars, workerVars, deviceVars,
                   view, chatVars, timers, gatewayVars, inputText,
                   output, procLoading, procCalls>>

\* a render that takes every template for a leaf
IsMenuNever(prompt) == FALSE

\* PROMPTS.map: prompt.isMenu ? the menu button and its children : the
\* leaf button
IsMenu(prompt) == prompt.isMenu

\* prompt.prompt || ''
PromptOrEmpty(prompt) ==
    IF prompt.prompt = UndefinedText THEN <<>> ELSE prompt.prompt

\* the button of template k: toggleMenu(prompt.id) for a menu template,
\* handleActionClick(prompt.prompt || '') for a leaf template
PromptClick(k) ==
    /\ k \in 1..Len(PROMPTS)
    /\ IF IsMenu(PROMPTS[k])
       THEN ToggleMenu(PROMPTS[k].id)
       ELSE /\ HandleActionClick(PromptOrEmpty(PROMPTS[k]))
            /\ UNCHANGED openMenu

\* child c of menu template k, rendered while its menu is open:
\* handleActionClick(subAction.prompt); setOpenMenu(null)
SubActionClick(k, c) ==
    /\ k \in 1..Len(PROMPTS)
    /\ IsMenu(PROMPTS[k])
    /\ openMenu = PROMPTS[k].id
    /\ c \in 1..Len(PROMPTS[k].subActions)
    /\ HandleActionClick(PROMPTS[k].subActions[c].prompt)
    /\ openMenu' = NoMenu

\* the textarea's onChange (the textarea is disabled while isLoading)
SetInputText(text) ==
    /\ Rendered
    /\ view = "processor"
    /\ ~procLoading
    /\ inputText' = text
    /\ last' = [op |-> "setInputText"]
    /\ UNCHANGED <<envVars, workerVars, deviceVars,
                   view, chatVars, timers, gatewayVars, output,
                   procLoading, procCalls, openMenu>>

HandleClearAll ==
    /\ Rendered
    /\ view = "processor"
    /\ inputText' = <<>>
    /\ output' = <<>>
    /\ last' = [op |-> "handleClearAll"]
    /\ UNCHANGED <<envVars, workerVars, deviceVars,
                   view, chatVars, timers, gatewayVars, procLoading,
                   procCalls, openMenu>>

\* a generateContent call settles; processText and then handleAction resume
ProcSettle(i, outcome) ==
    /\ i \in 1..Len(procCalls)
    /\ LET settled == ProcessTextSettle(outcome)
       IN  /\ IF procCalls[i].mounted
              THEN /\ output' = OutputAfter(settled)
                   /\ procLoading' = LoadingAfterAction(settled)
              ELSE UNCHANGED <<output, procLoading>>
           /\ last' = [op |-> "procSettle", mounted |-> procCalls[i].mounted,
                       outcome |-> outcome, settled |-> settled,
                       uncaught |-> EscapesHandleAction(settled)]
    /\ procCalls' = ProcCallsAfterSettle(i, outcome)
    /\ UNCHANGED <<envVars, workerVars, deviceVars,
                   view, chatVars, timers, gatewayVars, inputText,
                   openMenu>>

(* ------------------------------- App.tsx ------------------------------ *)

Unmounted(calls) == [i \in 1..Len(calls) |-> [calls[i] EXCEPT !.mounted = FALSE]]

\* NavButton: setActiveView(v); the component of the other view is unmounted
\* and the one of v is mounted with its initial state
SetActiveView(v) ==
    /\ Rendered
    /\ v \in {"chat", "processor"}
    /\ view' = v
    /\ IF v = view
       THEN UNCHANGED <<messages, input, isLoading, timers, chatCalls, procVars,
                        isRecording, frames, pasteCalls, last>>
       ELSE /\ messages' = <<>>
            /\ input' = <<>>
            /\ isLoading' = FALSE
            /\ timers' = Unmounted(timers)
            /\ chatCalls' = Unmounted(chatCalls)
            /\ inputText' = <<>>
            /\ output' = <<>>
            /\ procLoading' = FALSE
            /\ procCalls' = Unmounted(procCalls)
            /\ openMenu' = NoMenu
            /\ isRecording' = FALSE
            /\ frames' = Unmounted(frames)
            /\ pasteCalls' = Unmounted(pasteCalls)
            /\ last' = [op |-> "setActiveView"]
    /\ UNCHANGED <<envVars, workerVars, isRecognitionReady, isPasteReady, chat, created,
                   discarded>>

(* ------------------------- speech and clipboard ----------------------- *)

\* event.results[0][0].transcript of a recognition result
Transcripts == {<<"s">>, <<" ", "s">>}

\* the longest input text followed here
MaxInput == 6

\* an updater that puts the transcript in the place of the input
WithTranscriptOnly(prev, transcript) == transcript

\* the updater of recognition.onresult:
\* prev ? `${prev} ${transcript}`.trim() : transcript
WithTranscript(prev, transcript) ==
    IF prev # <<>> THEN Trim(prev \o <<" ">> \o transcript) ELSE transcript

\* the isLoading of the component on screen
ViewLoading == IF view = "chat" THEN isLoading ELSE procLoading

\* handleToggleRecording through the microphone button, which is rendered
\* when isRecognitionReady and disabled while isLoading; recognition.start()
\* leads to onstart and recognition.stop() to onend
HandleToggleRecording ==
    /\ Rendered
    /\ isRecognitionReady
    /\ ~ViewLoading
    /\ isRecording' = ~isRecording
    /\ last' = [op |-> "handleToggleRecording"]
    /\ UNCHANGED <<envVars, workerVars, isRecognitionReady, isPasteReady, frames,
                   pasteCalls, view, chatVars, timers, gatewayVars, procVars>>

\* recognition.onresult, which asks for an animation frame, and the onend
\* that follows the one result of a recognition that is not continuous
OnResult(transcript) ==
    /\ Rendered
    /\ isRecording
    /\ Outstanding < MaxPending
    /\ frames' = Append(frames, [transcript |-> transcript, mounted |-> TRUE])
    /\ isRecording' = FALSE
    /\ last' = [op |-> "onresult"]
    /\ UNCHANGED <<envVars, workerVars, isRecognitionReady, isPasteReady, pasteCalls, view,
                   chatVars, timers, gatewayVars, procVars>>

\* the animation frame of onresult: setInput or setInputText with the updater
FrameFires(i) ==
    /\ i \in 1..Len(frames)
    /\ LET transcript == frames[i].transcript
           prev == IF view = "chat" THEN input ELSE inputText
       IN  /\ Len(WithTranscript(prev, transcript)) <= MaxInput
           /\ IF frames[i].mounted /\ view = "chat"
              THEN input' = WithTranscript(input, transcript)
              ELSE UNCHANGED input
           /\ IF frames[i].mounted /\ view = "processor"
              THEN inputText' = WithTranscript(inputText, transcript)
              ELSE UNCHANGED inputText
           /\ last' = [op |-> "frame", mounted |-> frames[i].mounted,
                       transcript |-> transcript]
    /\ frames' = Remove(frames, i)
    /\ UNCHANGED <<envVars, workerVars, isRecording, isRecognitionReady, isPasteReady,
                   pasteCalls, view, messages, isLoading, timers, gatewayVars,
                   output, procLoading, procCalls, openMenu>>

\* what the clipboard holds
ClipboardTexts == {<<>>, <<"c">>}

\* navigator.clipboard.readText() resolves with the text or rejects
ClipboardOutcomes ==
    [ok : {TRUE}, text : ClipboardTexts] \cup [ok : {FALSE}, text : {<<>>}]

\* the early return of handlePasteFromClipboard: !isPasteReady || isLoading
PasteRejected(ready, loading) == ~ready \/ loading

\* handlePasteFromClipboard up to its await
HandlePasteFromClipboard ==
    /\ Rendered
    /\ view = "processor"
    /\ IF PasteRejected(isPasteReady, procLoading)
       THEN /\ UNCHANGED pasteCalls
            /\ last' = [op |-> "handlePasteFromClipboard", accepted |-> FALSE]
       ELSE /\ Outstanding < MaxPending
            /\ pasteCalls' = Append(pasteCalls, [mounted |-> TRUE])
            /\ last' = [op |-> "handlePasteFromClipboard", accepted |-> TRUE]
    /\ UNCHANGED <<envVars, workerVars, isRecording, isRecognitionReady, isPasteReady,
                   frames, view, chatVars, timers, gatewayVars, procVars>>

\* a paste whose failure touches the input text as well
InputTextAfterPasteClears(prev, outcome) ==
    IF outcome.ok /\ outcome.text # <<>> THEN outcome.text ELSE <<>>

\* the try block after the await: if (text) setInputText(text)
InputTextAfterPaste(prev, outcome) ==
    IF outcome.ok /\ outcome.text # <<>> THEN outcome.text ELSE prev

\* the catch block: setOutput(t('processor.pasteError'))
OutputAfterPaste(prev, outcome) ==
    IF outcome.ok THEN prev ELSE T("processor.pasteError")

\* readText settles and handlePasteFromClipboard resumes
PasteSettle(i, outcome) ==
    /\ i \in 1..Len(pasteCalls)
    /\ IF pasteCalls[i].mounted
       THEN /\ inputText' = InputTextAfterPaste(inputText, outcome)
            /\ output' = OutputAfterPaste(output, outcome)
       ELSE UNCHANGED <<inputText, output>>
    /\ pasteCalls' = Remove(pasteCalls, i)
    /\ last' = [op |-> "pasteSettle", mounted |-> pasteCalls[i].mounted,
                outcome |-> outcome]
    /\ UNCHANGED <<envVars, workerVars, isRecording, isRecognitionReady, isPasteReady,
                   frames, view, chatVars, timers, gatewayVars, procLoading,
                   procCalls, openMenu>>

(* --------------------------- service worker --------------------------- *)

\* URLs of requests: one of urlsToCache and one that is not
Urls == {"/index.html", "/asset.js"}

\* the part of urlsToCache followed here
UrlsToCache == {"/index.html"}

\* the requests of fetch events
Requests == [method : {"GET", "POST"}, url : Urls]

\* no Response: what caches.match resolves to on a miss
NoResponse == [status |-> "undefined"]

\* a Response is followed by its status; "opaque" is the status 0 of a
\* no-cors response
Statuses == {"200", "404", "opaque"}

Responses == [status : Statuses]

\* fetch(request) resolves with a Response or rejects
FetchOutcomes == [ok : {TRUE}, response : Responses]
                    \cup [ok : {FALSE}, response : {NoResponse}]

\* install and activate: cache.addAll(urlsToCache) into CACHE_NAME
Install ==
    /\ worker = "installing"
    /\ worker' = "activated"
    /\ cache' = [url \in Urls |->
                    IF url \in UrlsToCache THEN [status |-> "200"] ELSE cache[url]]
    /\ last' = [op |-> "install"]
    /\ UNCHANGED <<pageVars, fetchEvents>>

\* event.request.method !== 'GET', negated
IsGet(request) == request.method = "GET"

\* the fetch listener up to its first await: a non-GET request is passed to
\* fetch, a GET request to caches.match
OnFetch(request) ==
    /\ worker = "activated"
    /\ Len(fetchEvents) < MaxPending
    /\ fetchEvents' = Append(fetchEvents,
           [request |-> request,
            step |-> IF IsGet(request) THEN "match" ELSE "fetch",
            missed |-> FALSE,
            response |-> NoResponse])
    /\ last' = [op |-> "fetch", request |-> request]
    /\ UNCHANGED <<pageVars, worker, cache>>

\* caches.match(event.request) resolves: a hit is the response of the
\* event, a miss leads to fetch(event.request.clone())
MatchSettles(i) ==
    /\ i \in 1..Len(fetchEvents)
    /\ fetchEvents[i].step = "match"
    /\ LET cachedResponse == cache[fetchEvents[i].request.url]
       IN  IF cachedResponse # NoResponse
           THEN /\ fetchEvents' = Remove(fetchEvents, i)
                /\ last' = [op |-> "respondWith", from |-> "cache",
                            request |-> fetchEvents[i].request,
                            response |-> cachedResponse, ok |-> TRUE]
           ELSE /\ fetchEvents' = [fetchEvents EXCEPT ![i].step = "fetch",
                                                      ![i].missed = TRUE]
                /\ last' = [op |-> "miss", request |-> fetchEvents[i].request]
    /\ UNCHANGED <<pageVars, worker, cache>>

\* a test that lets every response into the cache
ShouldCacheAny(networkResponse) == TRUE

\* networkResponse && networkResponse.status === 200
ShouldCache(networkResponse) ==
    networkResponse # NoResponse /\ networkResponse.status = "200"

\* the network fetch settles: its outcome is the response of the event, and
\* for a GET request with a response to cache caches.open(CACHE_NAME) follows
FetchSettles(i, outcome) ==
    /\ i \in 1..Len(fetchEvents)
    /\ fetchEvents[i].step = "fetch"
    /\ IF fetchEvents[i].missed /\ outcome.ok /\ ShouldCache(outcome.response)
       THEN fetchEvents' = [fetchEvents EXCEPT ![i].step = "put",
                                               ![i].response = outcome.response]
       ELSE fetchEvents' = Remove(fetchEvents, i)
    /\ last' = [op |-> "respondWith", from |-> "network",
                request |-> fetchEvents[i].request,
                response |-> outcome.response, ok |-> outcome.ok]
    /\ UNCHANGED <<pageVars, worker, cache>>

\* caches.open(CACHE_NAME) resolves: cache.put(event.request, responseToCache)
PutSettles(i) ==
    /\ i \in 1..Len(fetchEvents)
    /\ fetchEvents[i].step = "put"
    /\ cache' = [cache EXCEPT ![fetchEvents[i].request.url] =
                                  fetchEvents[i].response]
    /\ fetchEvents' = Remove(fetchEvents, i)
    /\ last' = [op |-> "put", request |-> fetchEvents[i].request,
                response |-> fetchEvents[i].response,
                missed |-> fetchEvents[i].missed]
    /\ UNCHANGED <<pageVars, worker>>

(* --------------------------- specification ---------------------------- *)

\* the application as it is loaded, whatever the browser can do
InitApp ==
    /\ view = "chat"
    /\ messages = <<>>
    /\ input = <<>>
    /\ isLoading = FALSE
    /\ timers = <<>>
    /\ chat = NoChat
    /\ created = 0
    /\ discarded = 0
    /\ chatCalls = <<>>
    /\ inputText = <<>>
    /\ output = <<>>
    /\ procLoading = FALSE
    /\ procCalls = <<>>
    /\ openMenu = NoMenu
    /\ last = [op |-> "init"]
    /\ API_KEY \in ApiKeys
    /\ service = "importing"
    /\ isRecording = FALSE
    /\ frames = <<>>
    /\ pasteCalls = <<>>
    /\ worker = "installing"
    /\ cache = [url \in Urls |-> NoResponse]
    /\ fetchEvents = <<>>

\* a browser without speech recognition and without clipboard reading
Init ==
    /\ InitApp
    /\ isRecognitionReady = FALSE
    /\ isPasteReady = FALSE

\* a browser that may have speech recognition
SpeechInit ==
    /\ InitApp
    /\ isRecognitionReady \in BOOLEAN
    /\ isPasteReady = FALSE

\* a browser that may have clipboard reading
PasteInit ==
    /\ InitApp
    /\ isRecognitionReady = FALSE
    /\ isPasteReady \in BOOLEAN

Next ==
    \/ ImportService
    \/ \E text \in Texts : SetInput(text)
    \/ SendInput
    \/ HandleRegenerate
    \/ \E i \in 1..MaxPending : TimerFires(i)
    \/ \E confirmed \in BOOLEAN : HandleClearChat(confirmed)
    \/ \E i \in 1..MaxPending, outcome \in RemoteOutcomes : ChatSettle(i, outcome)
    \/ \E v \in {"chat", "processor"} : SetActiveView(v)
    \/ \E text \in InputTexts : SetInputText(text)
    \/ \E k \in 1..Len(PROMPTS) : PromptClick(k)
    \/ \E k \in 1..Len(PROMPTS) :
          \E c \in 1..Len(PROMPTS[k].subActions) : SubActionClick(k, c)
    \/ HandleClearAll
    \/ \E i \in 1..MaxPending, outcome \in RemoteOutcomes : ProcSettle(i, outcome)

Spec == Init /\ [][Next]_vars

\* the two input texts, typed and dictated
SpeechNext ==
    \/ ImportService
    \/ \E text \in Texts : SetInput(text)
    \/ \E v \in {"chat", "processor"} : SetActiveView(v)
    \/ \E text \in InputTexts : SetInputText(text)
    \/ HandleClearAll
    \/ HandleToggleRecording
    \/ \E transcript \in Transcripts : OnResult(transcript)
    \/ \E i \in 1..MaxPending : FrameFires(i)

SpeechSpec == SpeechInit /\ [][SpeechNext]_vars

\* the text processor with its paste button
PasteNext ==
    \/ ImportService
    \/ \E v \in {"chat", "processor"} : SetActiveView(v)
    \/ \E text \in InputTexts : SetInputText(text)
    \/ \E k \in 1..Len(PROMPTS) : PromptClick(k)
    \/ \E k \in 1..Len(PROMPTS) :
          \E c \in 1..Len(PROMPTS[k].subActions) : SubActionClick(k, c)
    \/ HandleClearAll
    \/ \E i \in 1..MaxPending, outcome \in RemoteOutcomes : ProcSettle(i, outcome)
    \/ HandlePasteFromClipboard
    \/ \E i \in 1..MaxPending, outcome \in ClipboardOutcomes : PasteSettle(i, outcome)

PasteSpec == PasteInit /\ [][PasteNext]_vars

\* the service worker and the requests of the pages it controls
WorkerNext ==
    \/ Install
    \/ \E request \in Requests : OnFetch(request)
    \/ \E i \in 1..MaxPending : MatchSettles(i)
    \/ \E i \in 1..MaxPending, outcome \in FetchOutcomes : FetchSettles(i, outcome)
    \/ \E i \in 1..MaxPending : PutSettles(i)

WorkerSpec == Init /\ [][WorkerNext]_vars

ChatSettles(i) == \E outcome \in RemoteOutcomes : ChatSettle(i, outcome)

ProcSettles(i) == \E outcome \in RemoteOutcomes : ProcSettle(i, outcome)

\* every remote call is answered or fails in the end: the oldest unresolved
\* call of each kind does not stay unresolved forever
FairSpec ==
    /\ Spec
    /\ WF_vars(ChatSettles(1))
    /\ WF_vars(ProcSettles(1))

(* ------------------------------- claims ------------------------------- *)

\* the unresolved getChatResponse calls issued by the ChatBot now mounted
MountedChatCalls == {i \in 1..Len(chatCalls) : chatCalls[i].mounted}

\* C1: at most one getChatResponse call of the chat is unresolved at any
\* time: no handleSend, whether called by the user or by the timer of
\* handleRegenerate, issues a call while an earlier one is unresolved.
\* (Stated for the calls of the mounted ChatBot alone, which the claim
\* includes.)
AtMostOneChatCallInFlight == Cardinality(MountedChatCalls) <= 1

UserCount(msgs) == Cardinality(UserIndexes(msgs))

\* C2: regenerate does not duplicate the user entry: the handleSend that
\* handleRegenerate defers leaves the number of user messages unchanged, so
\* [user Hi, model Hello] ends as [user Hi, model new].
RegenerateKeepsUserCount ==
    [][(last'.op = "handleSend" /\ last'.via = "timer")
          => UserCount(messages') = UserCount(messages)]_vars

\* the step ran handleSend or handleAction with an empty or whitespace-only text
IsBlankCall(l) ==
    /\ l.op \in {"handleSend", "handleAction"}
    /\ \A k \in 1..Len(l.text) : IsWhite(l.text[k])

\* C3: handleSend and handleAction with an empty or whitespace-only text
\* issue no Gateway call, append no Message and change no state variable.
BlankInputIsNoOp ==
    [][IsBlankCall(last')
          => UNCHANGED <<view, messages, input, isLoading, timers, chat, created,
                         chatCalls, inputText, output, procLoading, procCalls>>]_vars

\* C3 witness: handleSend has run with a whitespace-only text
BlankSendHappened ==
    /\ last.op = "handleSend"
    /\ last.text = <<" ">>
    /\ ~isLoading

\* the call the step has just issued
NewestChatCall == chatCalls[Len(chatCalls)]

\* C4: after a confirmed clear the next accepted handleSend takes the create
\* path of getChatInstance (no handle is left to reuse), and every turn is
\* sent on a handle created after the last clear, which becomes the handle
\* of the module.
ClearStartsNewContext ==
    /\ [](created = discarded => chat = NoChat)
    /\ [][(last'.op = "handleSend" /\ last'.accepted)
             => /\ NewestChatCall'.handle > discarded'
                /\ chat' = NewestChatCall'.handle
                /\ chat = NoChat
                     => created' = created + 1 /\ NewestChatCall'.handle = created']_vars

\* C4 witness: a turn was accepted after a clear had discarded a handle
SentAfterClear ==
    /\ last.op = "handleSend"
    /\ last.accepted
    /\ discarded >= 1
    /\ NewestChatCall.handle = discarded + 1

IsRequestOf(body, instruction, text) ==
    LET n == Len(instruction)
    IN  /\ Len(body) = n + 7 + Len(text)
        /\ SubSeq(body, 1, n) = instruction
        /\ SubSeq(body, n + 1, n + 7) = <<"\n", "\n", "-", "-", "-", "\n", "\n">>
        /\ SubSeq(body, n + 8, Len(body)) = text

\* C5: the request body of every processText call is its instruction, the
\* separator "\n\n---\n\n" and its input text as typed (not trimmed); the
\* instruction and the text are the ones handleActionClick was given.
RequestIsInstructionSeparatorText ==
    /\ \A i \in 1..Len(procCalls) :
          IsRequestOf(procCalls[i].contents, procCalls[i].prompt, procCalls[i].text)
    /\ (last.op = "handleAction" /\ last.accepted)
          => /\ procCalls[Len(procCalls)].prompt = last.prompt
             /\ procCalls[Len(procCalls)].text = inputText
    /\ FullPrompt(TranslateFrPrompt, <<"H", "e", "l", "l", "o">>)
          = TranslateFrPrompt \o <<"\n", "\n", "-", "-", "-", "\n", "\n",
                                   "H", "e", "l", "l", "o">>

\* C5 witness: a menu child's instruction was sent with a text that has
\* white space around it
UntrimmedTextSent ==
    /\ last.op = "handleAction"
    /\ last.accepted
    /\ last.prompt = TranslateFrPrompt
    /\ inputText = <<" ", "a", "\n">>

\* C6: when the processText call of an accepted handleAction settles, the
\* output is the reply text on success and t('processor.errorMessage') on
\* failure, and the error does not leave handleAction.
TransformEndsWithReplyOrError ==
    [][(last'.op = "procSettle" /\ last'.mounted)
          => /\ output' = IF last'.outcome.ok
                          THEN last'.outcome.text
                          ELSE T("processor.errorMessage")
             /\ ~last'.uncaught]_vars

\* C6 witness: a transform has failed
TransformFailed ==
    /\ last.op = "procSettle"
    /\ last.mounted
    /\ ~last.outcome.ok
    /\ output = T("processor.errorMessage")

\* C7: an accepted handleSend appends exactly one user Message with the sent
\* text; when its call settles exactly one model Message is appended, the
\* reply on success and t('chat.errorMessage') on every failure; no Message
\* holds the error.
TurnAppendsUserThenModel ==
    /\ [][(last'.op = "handleSend" /\ last'.accepted /\ NewestChatCall'.mounted)
             => messages' = Append(messages,
                    [role |-> "user", content |-> last'.text])]_vars
    /\ [][(last'.op = "chatSettle" /\ last'.mounted)
             => messages' = Append(messages,
                    [role |-> "model",
                     content |-> IF last'.outcome.ok
                                 THEN last'.outcome.text
                                 ELSE T("chat.errorMessage")])]_vars
    /\ [](\A i \in 1..Len(messages) :
             \A k \in 1..Len(messages[i].content) :
                 messages[i].content[k] \notin Errors)

\* C7 witness: a turn has failed and its error Message is the last one
TurnFailed ==
    /\ last.op = "chatSettle"
    /\ last.mounted
    /\ last.outcome.error = "quota"
    /\ Len(messages) >= 2
    /\ messages[Len(messages)] = [role |-> "model", content |-> T("chat.errorMessage")]
    /\ messages[Len(messages) - 1].role = "user"

\* C8: the in-flight flag of the chat and of the text processor is false
\* right after the call of an accepted operation has settled, with success
\* or failure, and when every call settles in the end no flag stays true
\* forever: again and again both flags are false (at most one of the two
\* components is mounted, and the flag of the other is false).
InFlightFlagReleased ==
    /\ [][(last'.op = "chatSettle" /\ last'.mounted) => ~isLoading']_vars
    /\ [][(last'.op = "procSettle" /\ last'.mounted) => ~procLoading']_vars
    /\ []<>(~isLoading /\ ~procLoading)

\* C8 witness: the flag is false after a failed turn
FlagReleasedAfterFailure ==
    /\ last.op = "chatSettle"
    /\ last.mounted
    /\ ~last.outcome.ok
    /\ ~isLoading

\* what the Gateway hands to its caller is what the remote call ended with
Surfaced(l) ==
    IF l.outcome.ok
    THEN /\ l.settled.status = "fulfilled"
         /\ l.settled.value = l.outcome.text
         /\ l.settled.logged = <<>>
    ELSE /\ l.settled.status = "rejected"
         /\ l.settled.reason = l.outcome.error
         /\ l.settled.logged # <<>>
         /\ l.settled.logged[Len(l.settled.logged)] = l.outcome.error

\* C9: getChatResponse and processText issue one remote call each and none
\* again when it fails; a failure is logged and thrown on to the caller as
\* the same error.
GatewayNeverRetries ==
    /\ [][(last'.op = "handleSend" /\ last'.accepted)
             => Len(chatCalls') = Len(chatCalls) + 1]_vars
    /\ [][(last'.op = "handleAction" /\ last'.accepted)
             => Len(procCalls') = Len(procCalls) + 1]_vars
    /\ [][last'.op = "chatSettle"
             => Len(chatCalls') = Len(chatCalls) - 1 /\ Surfaced(last')]_vars
    /\ [][last'.op = "procSettle"
             => Len(procCalls') = Len(procCalls) - 1 /\ Surfaced(last')]_vars

\* C9 witness: a chat call has failed and its error reached the caller
ErrorRethrown ==
    /\ last.op = "chatSettle"
    /\ last.outcome.error = "network"
    /\ last.settled.status = "rejected"
    /\ last.settled.reason = "network"
    /\ chatCalls = <<>>

\* C10: every model Message of the sequence has a user Message before it in
\* the sequence (the one of its turn), in every reachable state.
ModelReplyFollowsUserMessage ==
    \A i \in 1..Len(messages) :
        messages[i].role = "model"
            => \E j \in 1..(i - 1) : messages[j].role = "user"

\* C11: right after handleClearChat has run with the confirmation accepted
\* the message sequence is empty and the module's chat handle is null,
\* whatever the two were before.
ClearEmptiesMessagesAndHandle ==
    (last.op = "handleClearChat" /\ last.confirmed)
        => messages = <<>> /\ chat = NoChat

\* C11 witness: a conversation with messages and a handle has been cleared
ClearedConversation ==
    /\ last.op = "handleClearChat"
    /\ last.confirmed
    /\ last.hadMessages
    /\ last.hadHandle
    /\ messages = <<>>
    /\ chat = NoChat

\* C12: resetChat changes the module's chat handle and nothing else: run in
\* any reachable state it leaves the message sequence, the input and the
\* in-flight flag of the chat as they are, and the step that runs it changes
\* the messages only by the setMessages([]) of its caller.
ResetChatChangesOnlyHandle ==
    /\ [](ResetChatIn(ChatState) = [ChatState EXCEPT !.chat = NoChat])
    /\ [][(last'.op = "handleClearChat" /\ last'.confirmed)
             => /\ input' = input
                /\ isLoading' = isLoading
                /\ messages' = <<>>
                /\ UNCHANGED <<created, chatCalls, timers>>]_vars

\* C12 witness: resetChat has run while a turn was in flight and a handle
\* was set; the flag is still true
ResetDuringTurn ==
    /\ last.op = "handleClearChat"
    /\ last.confirmed
    /\ last.hadHandle
    /\ isLoading
    /\ chatCalls # <<>>

\* C13: handleRegenerate called while a turn is in flight or while the
\* sequence holds no user message is rejected, and a rejected
\* handleRegenerate changes nothing: no Message is removed or appended, no
\* Gateway call is issued and no handleSend is deferred to a timer.
RejectedRegenerateIsNoOp ==
    /\ [][(last'.op = "handleRegenerate"
              /\ (isLoading \/ \A i \in 1..Len(messages) : messages[i].role # "user"))
             => ~last'.accepted]_vars
    /\ [][(last'.op = "handleRegenerate" /\ ~last'.accepted)
             => UNCHANGED <<view, messages, input, isLoading, timers, chat,
                            created, discarded, chatCalls, inputText, output,
                            procLoading, procCalls>>]_vars

\* C13 witness: handleRegenerate was called during a turn, with a user
\* message in the sequence, and was rejected
RegenerateRejectedDuringTurn ==
    /\ last.op = "handleRegenerate"
    /\ ~last.accepted
    /\ isLoading
    /\ chatCalls # <<>>
    /\ timers = <<>>
    /\ \E i \in 1..Len(messages) : messages[i].role = "user"

\* C14: when API_KEY is not set the evaluation of the service module
\* throws: the module never becomes ready, so getChatResponse, processText
\* and resetChat never run (no handle is created or discarded, no handler
\* that calls them runs) and no remote call is ever issued.
MissingKeyFailsFast ==
    Falsy(API_KEY)
        => /\ service \in {"importing", "threw"}
           /\ chatCalls = <<>>
           /\ procCalls = <<>>
           /\ timers = <<>>
           /\ chat = NoChat
           /\ created = 0
           /\ discarded = 0
           /\ last.op \in {"init", "import"}

\* C14 witness: the module was evaluated without a key and has thrown
ImportThrew ==
    /\ API_KEY = Undefined
    /\ service = "threw"
    /\ last.op = "import"

\* C15: when a remote call completes without text, getChatResponse and
\* processText return the empty string, and the model Message content or
\* the output set from it is the empty string.
NoTextGivesEmptyString ==
    (last.op \in {"chatSettle", "procSettle"}
        /\ last.outcome.ok /\ last.outcome.text = UndefinedText)
        => /\ last.settled.value = <<>>
           /\ (last.op = "procSettle" /\ last.mounted) => output = <<>>
           /\ (last.op = "chatSettle" /\ last.mounted)
                 => messages[Len(messages)].content = <<>>

\* the unresolved processText calls issued by the TextProcessor now mounted
MountedProcCalls == {i \in 1..Len(procCalls) : procCalls[i].mounted}

HandleCreatedLazilyThenReused ==
    /\ [](created = 0 => chat = NoChat)
    /\ [](created <= discarded + 1)
    /\ [](chat = IF created > discarded THEN created ELSE NoChat)
    /\ [][created' # created
             => /\ last'.op = "handleSend" /\ last'.accepted
                /\ chat = NoChat
                /\ created' = created + 1
                /\ chat' = created']_vars
    /\ [][(last'.op = "handleSend" /\ last'.accepted /\ chat # NoChat)
             => /\ chatCalls'[Len(chatCalls')].handle = chat
                /\ chat' = chat
                /\ created' = created]_vars
    /\ [][(chat # NoChat /\ chat' # chat)
             => last'.op = "handleClearChat" /\ last'.confirmed]_vars

\* C17 witness: the second turn of a conversation was sent on the handle the
\* first one created
SecondTurnReusedHandle ==
    /\ last.op = "handleSend"
    /\ last.accepted
    /\ created = 1
    /\ discarded = 0
    /\ chat = 1
    /\ chatCalls[Len(chatCalls)].handle = 1
    /\ Cardinality({i \in 1..Len(messages) : messages[i].role = "user"}) = 2

\* C18: while a call issued by the chat is unresolved the in-flight flag of
\* the chat is true, and likewise for the text processor, also after the
\* view was switched away and back.  (Stated for the states in which the
\* component of the flow is the one on screen.)
UnresolvedCallKeepsFlag ==
    /\ (view = "chat" /\ chatCalls # <<>>) => isLoading
    /\ (view = "processor" /\ procCalls # <<>>) => procLoading

\* C19: the request of a processText call is a function of its two
\* arguments alone: whatever has happened before or since (transforms, chat
\* turns, resets), it is what fullPrompt gives for these arguments, and two
\* calls with the same arguments carry the same request; the steps of
\* processText leave the chat handle, the count of created handles and the
\* chat calls as they are.
TransformsAreIndependent ==
    /\ [](\A i \in 1..Len(procCalls) :
             procCalls[i].contents
                 = FullPrompt(procCalls[i].prompt, procCalls[i].text))
    /\ [](\A i, j \in 1..Len(procCalls) :
             (procCalls[i].prompt = procCalls[j].prompt
                 /\ procCalls[i].text = procCalls[j].text)
                 => procCalls[i].contents = procCalls[j].contents)
    /\ [][last'.op \in {"handleAction", "procSettle"}
             => UNCHANGED <<chat, created, discarded, chatCalls>>]_vars

\* C19 witness: two transforms with the same arguments are unresolved, the
\* first sent by an earlier TextProcessor and the second after a chat turn
\* has created a handle
SameTransformAfterChatTurn ==
    /\ last.op = "handleAction"
    /\ last.accepted
    /\ Len(procCalls) = 2
    /\ procCalls[1].prompt = procCalls[2].prompt
    /\ procCalls[1].text = procCalls[2].text
    /\ ~procCalls[1].mounted
    /\ chat # NoChat

\* the instructions of the leaf templates
LeafInstructions ==
    {PROMPTS[k].prompt : k \in {k \in 1..Len(PROMPTS) : ~PROMPTS[k].isMenu}}

\* the children of the menu templates, each with its menu
MenuChildren ==
    {<<k, c>> \in (1..Len(PROMPTS)) \X (1..Len(PROMPTS)) :
        PROMPTS[k].isMenu /\ c <= Len(PROMPTS[k].subActions)}

\* C20: the instruction of every processText call is the instruction of a
\* leaf template or of one child of a menu template, never that of a menu
\* template (which has none: it would be sent as the empty instruction);
\* a click on a menu template runs toggleMenu, which opens the submenu, or
\* closes it when it is open, and changes nothing else: it issues no call.
MenuTemplateNeverSent ==
    /\ [](\A i \in 1..Len(procCalls) :
             /\ procCalls[i].prompt \notin {<<>>, UndefinedText}
             /\ \/ procCalls[i].prompt \in LeafInstructions
                \/ \E kc \in MenuChildren :
                      procCalls[i].prompt
                          = PROMPTS[kc[1]].subActions[kc[2]].prompt)
    /\ [][last'.op = "toggleMenu"
             => /\ openMenu' = IF openMenu = last'.id THEN NoMenu ELSE last'.id
                /\ UNCHANGED <<procCalls, chatCalls, timers, output,
                               procLoading, inputText, chat, created>>]_vars
    /\ [][(last'.op = "handleAction" /\ last'.accepted
              /\ last'.prompt \notin LeafInstructions)
             => openMenu # NoMenu /\ openMenu' = NoMenu]_vars

\* C20 witness: the translate menu was opened and its child translate-fr
\* sent: the call carries the child's instruction and the menu is closed
MenuChildSent ==
    /\ last.op = "handleAction"
    /\ last.accepted
    /\ last.prompt = TranslateFrPrompt
    /\ procCalls[Len(procCalls)].prompt = TranslateFrPrompt
    /\ openMenu = NoMenu

\* an instruction is there and is not the empty string
NonEmptyInstruction(prompt) == prompt # <<>> /\ prompt # UndefinedText

\* the Prompt Template invariant of one catalog entry
TemplateInvariant(p) ==
    IF p.isMenu
    THEN /\ Len(p.subActions) >= 1
         /\ p.prompt = UndefinedText
         /\ \A c \in 1..Len(p.subActions) :
                NonEmptyInstruction(p.subActions[c].prompt)
    ELSE /\ NonEmptyInstruction(p.prompt)
         /\ p.subActions = <<>>

\* template p is template q of the catalog with some of its children
TakenFrom(p, q) ==
    /\ p.id = q.id
    /\ p.isMenu = q.isMenu
    /\ p.prompt = q.prompt
    /\ \A c \in 1..Len(p.subActions) :
           \E d \in 1..Len(q.subActions) : p.subActions[c] = q.subActions[d]

\* C21: in the catalog of getPredefinedPrompts, in every language, every
\* leaf template and every menu child has a non-empty instruction and
\* every menu template has at least one child and no instruction of its
\* own; the templates the text processor offers are templates of that
\* catalog, and no processText call carries the empty instruction.
CatalogIsWellFormed ==
    /\ \A language \in Languages :
           \A k \in 1..Len(GetPredefinedPrompts(language)) :
               TemplateInvariant(GetPredefinedPrompts(language)[k])
    /\ \A k \in 1..Len(PROMPTS) :
           /\ TemplateInvariant(PROMPTS[k])
           /\ \E j \in 1..Len(GetPredefinedPrompts("en")) :
                  TakenFrom(PROMPTS[k], GetPredefinedPrompts("en")[j])
    /\ \A i \in 1..Len(procCalls) : NonEmptyInstruction(procCalls[i].prompt)
    /\ (last.op = "handleAction" /\ last.accepted)
          => NonEmptyInstruction(last.prompt)

\* C21 witness: the leaf template summarize was clicked and its instruction,
\* the one of the catalog, was sent
LeafInstructionSent ==
    /\ last.op = "handleAction"
    /\ last.accepted
    /\ last.prompt = GetPredefinedPrompts("en")[1].prompt
    /\ procCalls[Len(procCalls)].prompt = last.prompt
    /\ openMenu = NoMenu

\* C22: an accepted handleRegenerate removes nothing when the last entry of
\* the sequence is a user message and exactly the last entry when that is a
\* model message, and defers a handleSend of the text of the most recent
\* user message; that handleSend is accepted and sends this text to the
\* Gateway.
RegenerateResendsLastUserText ==
    /\ [][(last'.op = "handleRegenerate" /\ last'.accepted)
             => /\ messages # <<>>
                /\ IF messages[Len(messages)].role = "user"
                   THEN messages' = messages
                   ELSE messages' = SubSeq(messages, 1, Len(messages) - 1)
                /\ Len(timers') = Len(timers) + 1
                /\ SubSeq(timers', 1, Len(timers)) = timers
                /\ \E i \in 1..Len(messages) :
                      /\ messages[i].role = "user"
                      /\ \A j \in (i + 1)..Len(messages) :
                             messages[j].role = "model"
                      /\ timers'[Len(timers')].content = messages[i].content]_vars
    /\ [][(last'.op = "handleSend" /\ last'.via = "timer")
             => /\ last'.accepted
                /\ \E i \in 1..Len(timers) :
                      /\ timers[i].content = last'.text
                      /\ timers' = Remove(timers, i)
                /\ chatCalls' = Append(chatCalls, chatCalls'[Len(chatCalls')])
                /\ chatCalls'[Len(chatCalls')].message = last'.text]_vars

\* C22 witness: handleRegenerate was accepted twice in a row; the second one
\* found the user message last, removed nothing and deferred the same text
RegeneratedWithTrailingUser ==
    /\ last.op = "handleRegenerate"
    /\ last.accepted
    /\ Len(timers) = 2
    /\ timers[1].mounted /\ timers[2].mounted
    /\ messages # <<>>
    /\ messages[Len(messages)].role = "user"
    /\ timers[2].content = messages[Len(messages)].content

\* seq with its last entry removed
WithoutLast(seq) == SubSeq(seq, 1, Len(seq) - 1)

IsPrefix(s, t) == Len(s) <= Len(t) /\ SubSeq(t, 1, Len(s)) = s

\* C24: when the animation frame of a recognition result with transcript s
\* runs in the mounted component whose input text is p, the input text
\* becomes s if p is empty and the trimmed p + " " + s otherwise, so that
\* it still begins with the earlier text (less the white space around it);
\* this holds for the chat's input and for the text processor's inputText,
\* and the frame changes nothing else of either component.
TranscriptIsAppended ==
    [][(last'.op = "frame" /\ last'.mounted)
          => LET s == last'.transcript
                 p == IF view = "chat" THEN input ELSE inputText
                 q == IF view = "chat" THEN input' ELSE inputText'
             IN  /\ q = IF p = <<>> THEN s ELSE Trim(p \o <<" ">> \o s)
                 /\ IsPrefix(Trim(p), q)
                 /\ view = "chat" => inputText' = inputText
                 /\ view = "processor" => input' = input
                 /\ UNCHANGED <<view, messages, isLoading, output,
                                procLoading>>]_vars

\* C24 witness: the transcript " s" was dictated into the text processor
\* over the typed text " a\n"
DictatedAfterTypedText ==
    /\ last.op = "frame"
    /\ last.mounted
    /\ last.transcript = <<" ", "s">>
    /\ view = "processor"
    /\ inputText = <<"a", "\n", " ", " ", "s">>

\* C25: when readText fails, the resumed handlePasteFromClipboard sets the
\* output to the localized paste error and changes nothing else: not the
\* input text, not the in-flight flag, not the transforms in flight, and a
\* transform that settles later still sets the output to its own result;
\* handlePasteFromClipboard called while a transform is in flight or
\* without clipboard support changes nothing at all.
FailedPasteOnlySetsOutput ==
    /\ [][(last'.op = "pasteSettle" /\ last'.mounted /\ ~last'.outcome.ok)
             => /\ output' = T("processor.pasteError")
                /\ UNCHANGED <<inputText, procLoading, procCalls, openMenu,
                               view, chatVars, timers, gatewayVars>>]_vars
    /\ [][(last'.op = "procSettle" /\ last'.mounted)
             => output' = OutputAfter(last'.settled)]_vars
    /\ [][(last'.op = "handlePasteFromClipboard"
              /\ (procLoading \/ ~isPasteReady))
             => /\ ~last'.accepted
                /\ UNCHANGED <<pasteCalls, procVars, view, chatVars, timers,
                               gatewayVars>>]_vars

\* C25 witness: the clipboard read failed while a transform of a non-empty
\* input text was in flight
PasteFailedDuringTransform ==
    /\ last.op = "pasteSettle"
    /\ last.mounted
    /\ ~last.outcome.ok
    /\ output = T("processor.pasteError")
    /\ inputText # <<>>
    /\ procLoading
    /\ MountedProcCalls # {}

\* C28: while a transform of the mounted text processor is in flight its
\* output is the empty string, whatever else happens in the meantime.
OutputEmptyWhileTransformInFlight ==
    (procLoading /\ MountedProcCalls # {}) => output = <<>>

\* C26: after a confirmed clear the message sequence stays empty until the
\* next accepted handleSend: the reply or error message of a turn that was
\* in flight at the clear is not appended to it, so an empty sequence
\* becomes non-empty only by an accepted handleSend.
ClearedSequenceStaysEmpty ==
    [][(messages = <<>> /\ messages' # <<>>)
          => (last'.op = "handleSend" /\ last'.accepted)]_vars

\* C27: whenever the chat is on screen with an empty message sequence and
\* no turn in flight, also after the view was switched away and back, the
\* Gateway holds no chat handle.
EmptyConversationHasNoHandle ==
    (view = "chat" /\ messages = <<>> /\ ~isLoading
        /\ chatCalls = <<>> /\ timers = <<>>)
      => chat = NoChat

\* C29: a turn that fails leaves the chat handle as it is, neither
\* discarded nor created anew, and leaves every Message of the sequence in
\* place, the mounted ChatBot adding the error message after them; an
\* accepted handleSend that finds a handle, as the one after the failure
\* does, is sent on that handle.
FailedTurnKeepsContext ==
    /\ [][(last'.op = "chatSettle" /\ ~last'.outcome.ok)
             => /\ chat' = chat
                /\ created' = created
                /\ discarded' = discarded
                /\ IsPrefix(messages, messages')
                /\ last'.mounted
                     => messages' = Append(messages,
                                          ModelMessage(T("chat.errorMessage")))]_vars
    /\ [][(chat # NoChat /\ last'.op = "handleSend" /\ last'.accepted)
             => /\ chatCalls'[Len(chatCalls')].handle = chat
                /\ chat' = chat
                /\ created' = created]_vars

\* C29 witness: the first turn failed, its user message and the error
\* message are still there, and the second turn was sent on the handle of
\* the first
TurnAfterFailureOnSameHandle ==
    /\ last.op = "handleSend"
    /\ last.accepted
    /\ Len(messages) = 3
    /\ messages[1].role = "user"
    /\ messages[2] = ModelMessage(T("chat.errorMessage"))
    /\ messages[3].role = "user"
    /\ created = 1
    /\ discarded = 0
    /\ chat = 1
    /\ chatCalls[Len(chatCalls)].handle = 1

\* C30: the fetch handler puts a response into the cache only for a GET
\* request whose caches.match missed and whose network response has status
\* 200, under the URL of that request; a request that is not a GET is never
\* matched against the cache nor put into it and is answered by the
\* network; a GET request that caches.match finds is answered with the
\* cached response, and the network is asked only after a miss.
WorkerCachesOnlyMissedGet200 ==
    /\ [][cache' # cache => last'.op \in {"install", "put"}]_vars
    /\ [][last'.op = "put"
             => /\ last'.request.method = "GET"
                /\ last'.missed
                /\ last'.response.status = "200"
                /\ cache' = [cache EXCEPT ![last'.request.url] =
                                              last'.response]]_vars
    /\ [](\A i \in 1..Len(fetchEvents) :
             fetchEvents[i].request.method # "GET"
                => fetchEvents[i].step = "fetch" /\ ~fetchEvents[i].missed)
    /\ [][(last'.op = "respondWith" /\ last'.request.method # "GET")
             => last'.from = "network"]_vars
    /\ [][(last'.op = "respondWith" /\ last'.from = "cache")
             => /\ last'.request.method = "GET"
                /\ last'.response = cache[last'.request.url]
                /\ last'.response # NoResponse
                /\ cache' = cache]_vars
    /\ [][last'.op = "miss"
             => cache[last'.request.url] = NoResponse]_vars
    /\ [][(last'.op = "respondWith" /\ last'.from = "network"
              /\ last'.request.method = "GET")
             => \E i \in 1..Len(fetchEvents) :
                   /\ fetchEvents[i].request = last'.request
                   /\ fetchEvents[i].step = "fetch"
                   /\ fetchEvents[i].missed]_vars

\* C30 witness: a GET request for a URL that was not in the cache got a
\* response with status 200 from the network, which was put into the cache
MissedGetWasCached ==
    /\ last.op = "put"
    /\ last.request = [method |-> "GET", url |-> "/asset.js"]
    /\ last.missed
    /\ cache["/asset.js"] = [status |-> "200"]

====
